---- MODULE Spec2Model ----
(***************************************************************************)
(* OwlTrack: commuter-rail timetable between Pushkino and Moscow           *)
(* (Yaroslavsky terminal).  Two programs share near-duplicate code:        *)
(*   src/main.py      the console menu program   (prog = "console")        *)
(*   src/rasp_api.py  the chat-bot program       (prog = "bot")            *)
(*                                                                         *)
(* Times are whole seconds.  The Python code works with float minutes      *)
(* (total_seconds() / 60); every comparison it makes between such values   *)
(* is order-equivalent to the comparison of the underlying seconds, so     *)
(* thresholds are written as minutes * 60.                                 *)
(* Cyrillic literals of the source are transliterated to ASCII.            *)
(***************************************************************************)
EXTENDS Integers, Sequences, FiniteSets, TLC

VARIABLES
    prog,           \* which program runs: "console" (main.py) or "bot" (rasp_api.py)
    pc,             \* console: position of main(); function harness: "call"/"done"
    handler,        \* bot: per user, the handler awaiting its reply ("idle" if none)
    use_buffer,     \* the 30-minute buffer flag
    toggles,        \* number of toggle actions handled so far
    schedule_to,    \* console: schedule Pushkino -> Moscow fetched at start-up
    schedule_back,  \* console: schedule Moscow -> Pushkino fetched at start-up
    now,            \* console: reference time taken once at start-up
    out,            \* outcome of the last front-end action
    args,           \* arguments of the function call under study
    ret             \* what that call returned or raised

vars == <<prog, pc, handler, use_buffer, toggles, schedule_to, schedule_back,
          now, out, args, ret>>

Programs == {"console", "bot"}

(***************************************************************************)
(* Timestamp strings and datetimes                                         *)
(***************************************************************************)
\* An ISO-8601 string "YYYY-MM-DDThh:mm:ss[+oo:00]" is kept as its fields;
\* fmt = "garbage" is a string isoparse rejects, fmt = "empty" is "" / None.
Iso(day, h, m, s, tz, off) ==
    [fmt |-> "iso", day |-> day, h |-> h, m |-> m, s |-> s,
     tz |-> tz, off |-> off]

Garbage == [fmt |-> "garbage", day |-> 0, h |-> 0, m |-> 0, s |-> 0,
            tz |-> FALSE, off |-> 0]

Empty == [fmt |-> "empty", day |-> 0, h |-> 0, m |-> 0, s |-> 0,
          tz |-> FALSE, off |-> 0]

NoDt == [aware |-> FALSE, wall |-> 0, off |-> 0]

\* datetime: wall-clock seconds, the UTC offset in seconds, and whether the
\* value carries an offset at all (aware) or not (naive).
Datetime(aware, wall, off) == [aware |-> aware, wall |-> wall, off |-> off]

\* dateutil.parser.isoparse: ValueError on anything that is not ISO-8601.
isoparse(s) ==
    IF s.fmt = "iso"
    THEN [exc |-> "none",
          dt  |-> Datetime(s.tz, ((s.day * 24 + s.h) * 60 + s.m) * 60 + s.s,
                           IF s.tz THEN s.off * 3600 ELSE 0)]
    ELSE [exc |-> "ValueError", dt |-> NoDt]

\* Python refuses to compare or subtract a naive and an aware datetime
\* (TypeError); two aware values are compared as UTC instants, two naive
\* ones by their wall clock.
Comparable(a, b) == a.aware = b.aware

Instant(dt) == IF dt.aware THEN dt.wall - dt.off ELSE dt.wall

\* (a - b).total_seconds()
total_seconds(a, b) == Instant(a) - Instant(b)

\* dt + timedelta(minutes = n)
AddMinutes(dt, n) == Datetime(dt.aware, dt.wall + n * 60, dt.off)

(***************************************************************************)
(* Text formatting                                                         *)
(***************************************************************************)
DigitChars == <<"0", "1", "2", "3", "4", "5", "6", "7", "8", "9">>

RECURSIVE Decimal(_)
\* str(n) for n >= 0, as a sequence of characters
Decimal(n) ==
    IF n < 10 THEN <<DigitChars[n + 1]>>
    ELSE Decimal(n \div 10) \o <<DigitChars[(n % 10) + 1]>>

\* format(n, "02d"): minimum width 2 including the sign, zero filled
Pad2(n) ==
    IF n < 0 THEN <<"-">> \o Decimal(-n)
    ELSE IF n < 10 THEN <<"0">> \o Decimal(n)
    ELSE Decimal(n)

\* f"{hours:02d}:{minutes:02d}"
HHMM(hours, minutes) == Pad2(hours) \o <<":">> \o Pad2(minutes)

\* dt.strftime("%H:%M"): the wall clock of the value's own offset
strftime(dt) == HHMM((dt.wall \div 3600) % 24, (dt.wall \div 60) % 60)

InvalidDuration == <<"Invalid duration">>
InvalidFormat   == <<"Invalid format">>
Unknown         == <<"?", "?", ":", "?", "?">>

(***************************************************************************)
(* format_duration                                                         *)
(***************************************************************************)
DiagMin == 10
DiagMax == 120

\* hours = int(duration // 60) with duration in minutes
Hours(sec) == sec \div 3600

\* a slip: the minutes are not reduced modulo the hour
MinutesTotal(sec) == sec \div 60

\* minutes = int(duration % 60) with duration in minutes
Minutes(sec) == (sec % 3600) \div 60

\* src/main.py format_duration: only ValueError is caught
format_duration_main(start, end) ==
    LET s == isoparse(start)
        e == isoparse(end)
    IN  IF s.exc # "none" \/ e.exc # "none"
        THEN [exc |-> "none", text |-> InvalidFormat, log |-> "error"]
        ELSE IF ~Comparable(e.dt, s.dt)
        THEN [exc |-> "TypeError", text |-> <<>>, log |-> "none"]
        ELSE IF Instant(e.dt) < Instant(s.dt)
        THEN [exc |-> "none", text |-> InvalidDuration, log |-> "warning"]
        ELSE LET sec == total_seconds(e.dt, s.dt)
             IN  [exc  |-> "none",
                  text |-> HHMM(Hours(sec), Minutes(sec)),
                  log  |-> IF sec < DiagMin * 60 \/ sec > DiagMax * 60
                           THEN "warning" ELSE "none"]

\* src/rasp_api.py format_duration: no ordering check, every Exception caught
format_duration_bot(start, end) ==
    LET s == isoparse(start)
        e == isoparse(end)
    IN  IF s.exc # "none" \/ e.exc # "none"
        THEN [exc |-> "none", text |-> Unknown, log |-> "none"]
        ELSE IF ~Comparable(e.dt, s.dt)
        THEN [exc |-> "none", text |-> Unknown, log |-> "none"]
        ELSE LET sec == total_seconds(e.dt, s.dt)
             IN  [exc  |-> "none",
                  text |-> HHMM(Hours(sec), Minutes(sec)),
                  log  |-> "none"]

format_duration(p, start, end) ==
    IF p = "console" THEN format_duration_main(start, end)
    ELSE format_duration_bot(start, end)

(***************************************************************************)
(* print_schedule                                                          *)
(* A segment of a Schedule is the tuple                                    *)
(*   <<title, departure, arrival, express_type>>.                          *)
(***************************************************************************)
Label(express) == IF express = "express" THEN "[EXPRESS]" ELSE "[REGULAR]"

RECURSIVE RenderLines(_, _, _, _)
\* the for loop of print_schedule: both timestamps are parsed for display
\* before format_duration is called; nothing in the loop is guarded.
RenderLines(p, schedule, i, acc) ==
    IF i > Len(schedule) THEN [exc |-> "none", lines |-> acc]
    ELSE LET seg == schedule[i]
             dep == isoparse(seg[2])
             arr == isoparse(seg[3])
             dur == format_duration(p, seg[2], seg[3])
         IN  IF dep.exc # "none" THEN [exc |-> dep.exc, lines |-> acc]
             ELSE IF arr.exc # "none" THEN [exc |-> arr.exc, lines |-> acc]
             ELSE IF dur.exc # "none" THEN [exc |-> dur.exc, lines |-> acc]
             ELSE RenderLines(p, schedule, i + 1,
                      Append(acc, [label    |-> Label(seg[4]),
                                   train    |-> seg[1],
                                   dep_time |-> strftime(dep.dt),
                                   arr_time |-> strftime(arr.dt),
                                   duration |-> dur.text]))

\* print_schedule: the console prints line by line (what was printed before a
\* fault stays on the screen); the bot returns the joined text, or nothing
\* when the loop raised.
print_schedule(p, schedule) ==
    IF Len(schedule) = 0
    THEN [exc |-> "none", nodata |-> TRUE, lines |-> <<>>]
    ELSE LET r == RenderLines(p, schedule, 1, <<>>)
         IN  [exc |-> r.exc, nodata |-> FALSE,
              lines |-> IF p = "bot" /\ r.exc # "none" THEN <<>> ELSE r.lines]

(***************************************************************************)
(* find_fastest                                                            *)
(***************************************************************************)
BufferMinutes == 30
PlausibleMin  == 30
PlausibleMax  == 60

\* filter_time = start_time + timedelta(minutes=30) if use_buffer else start_time
filter_time(start_time, buffer) ==
    IF buffer THEN AddMinutes(start_time, BufferMinutes) ELSE start_time

\* a slip: > instead of >=
StrictlyAfter(seg, ft) == Instant(isoparse(seg[2]).dt) > Instant(ft)

\* parser.isoparse(seg[1]) >= filter_time, for a parseable, comparable seg[1]
AtOrAfter(seg, ft) == Instant(isoparse(seg[2]).dt) >= Instant(ft)

\* what evaluating the filter on one segment raises
FilterExc(seg, ft) ==
    IF isoparse(seg[2]).exc # "none" THEN "ValueError"
    ELSE IF ~Comparable(isoparse(seg[2]).dt, ft) THEN "TypeError"
    ELSE "none"

\* what train_score raises on a segment that passed the filter
ScoreExc(seg) ==
    IF isoparse(seg[3]).exc # "none" THEN "ValueError"
    ELSE IF ~Comparable(isoparse(seg[3]).dt, isoparse(seg[2]).dt) THEN "TypeError"
    ELSE "none"

\* duration = (arr - dep).total_seconds() / 60, in seconds
Duration(seg) == total_seconds(isoparse(seg[3]).dt, isoparse(seg[2]).dt)

\* wait = (dep - filter_time).total_seconds() / 60, in seconds
Wait(seg, ft) == total_seconds(isoparse(seg[2]).dt, ft)

\* A score (x, y) is kept as <<inf, x, y>>: inf = 1 stands for
\* x = float('inf') (x is then 0), which is above every finite wait.
\* src/main.py train_score
train_score_main(seg, ft) ==
    IF Duration(seg) < PlausibleMin * 60 \/ Duration(seg) > PlausibleMax * 60
    THEN <<1, 0, Wait(seg, ft)>>
    ELSE <<0, Wait(seg, ft), Duration(seg)>>

\* src/rasp_api.py train_score: no plausibility penalty
train_score_bot(seg, ft) == <<0, Wait(seg, ft), Duration(seg)>>

train_score(p, seg, ft) ==
    IF p = "console" THEN train_score_main(seg, ft) ELSE train_score_bot(seg, ft)

\* a slip: a later element with an equal key replaces the candidate
ScoreLessOrEqual(a, b) ==
    \/ a[1] < b[1]
    \/ a[1] = b[1] /\ a[2] < b[2]
    \/ a[1] = b[1] /\ a[2] = b[2] /\ a[3] <= b[3]

\* Python's tuple order
ScoreLess(a, b) ==
    \/ a[1] < b[1]
    \/ a[1] = b[1] /\ a[2] < b[2]
    \/ a[1] = b[1] /\ a[2] = b[2] /\ a[3] < b[3]

RECURSIVE MinLoop(_, _, _, _, _, _)
\* min(future_trains, key=train_score): the first element is the candidate,
\* a later one replaces it only when its key is strictly smaller.
MinLoop(p, schedule, ft, future, k, best) ==
    IF k > Len(future) THEN best
    ELSE MinLoop(p, schedule, ft, future, k + 1,
                 IF ScoreLess(train_score(p, schedule[future[k]], ft),
                              train_score(p, schedule[best], ft))
                 THEN future[k] ELSE best)

\* the first exception raised while walking positions 1..n of the schedule
FirstExc(excs) ==
    LET bad == {i \in DOMAIN excs : excs[i] # "none"}
    IN  IF bad = {} THEN "none"
        ELSE excs[CHOOSE i \in bad : \A j \in bad : i <= j]

\* find_fastest returns the chosen tuple of the schedule; idx is its position
\* (0 for None).
find_fastest(p, schedule, start_time, buffer) ==
    LET ft        == filter_time(start_time, buffer)
        n         == Len(schedule)
        filterExc == FirstExc([i \in 1..n |-> FilterExc(schedule[i], ft)])
        Keep(i)   == AtOrAfter(schedule[i], ft)
        future    == SelectSeq([i \in 1..n |-> i], Keep)
        scoreExc  == FirstExc([k \in 1..Len(future) |-> ScoreExc(schedule[future[k]])])
    IN  IF filterExc # "none" THEN [exc |-> filterExc, idx |-> 0]
        ELSE IF Len(future) = 0 THEN [exc |-> "none", idx |-> 0]
        ELSE IF scoreExc # "none" THEN [exc |-> scoreExc, idx |-> 0]
        ELSE [exc |-> "none",
              idx |-> MinLoop(p, schedule, ft, future, 2, future[1])]

(***************************************************************************)
(* YandexRaspAPI.get_schedule                                              *)
(***************************************************************************)
\* "Pushkino", "Moskva (Yaroslavsky vokzal)", "Neizvestno" (the default title)
Pushkino == <<"P", "u", "s", "h", "k", "i", "n", "o">>
MoscowYar == <<"M", "o", "s", "k", "v", "a", " ", "(", "Y", "a", "r", ")">>
DefaultTitle == <<"N", "e", "i", "z", "v">>

\* Config.STATION_Pushkino, Config.STATION_MOSCOW: opaque station codes
STATION_Pushkino == "s_pushkino"
STATION_MOSCOW   == "s_moscow"

\* Python's "name in title" on strings
Contains(title, name) ==
    \E i \in 1..(Len(title) - Len(name) + 1) :
        SubSeq(title, i, i + Len(name) - 1) = name

\* seg.get("thread", {}).get("title", default)
TitleOf(seg) ==
    IF seg.has_thread /\ seg.has_title THEN seg.title ELSE DefaultTitle

\* seg.get("thread", {}).get("express_type")
ExpressOf(seg) == IF seg.has_thread THEN seg.express_type ELSE "none"

\* seg.get("departure") and seg.get("arrival")
HasTimes(seg) == seg.departure.fmt # "empty" /\ seg.arrival.fmt # "empty"

\* src/main.py line 33
KeepTitle_main(title, from_code, to_code) ==
    \/ Contains(title, Pushkino) \/ Contains(title, MoscowYar)
    \/ to_code = STATION_Pushkino
    \/ from_code = STATION_Pushkino

\* src/rasp_api.py line 26
KeepTitle_bot(title, from_code, to_code) ==
    Contains(title, Pushkino) \/ Contains(title, MoscowYar)

KeepTitle(p, title, from_code, to_code) ==
    IF p = "console" THEN KeepTitle_main(title, from_code, to_code)
    ELSE KeepTitle_bot(title, from_code, to_code)

\* requests.get + raise_for_status: a response of kind "connection_error",
\* "timeout" or "http_error" (a status raise_for_status rejects) raises a
\* requests.RequestException.
Raises(response) == response.kind # "ok"

\* a slip: the exception is not caught
RequestExceptionEscapes == [exc |-> "RequestException", result |-> <<>>,
                            requests |-> 1, log |-> "none"]

\* what the except clause of get_schedule does with a RequestException
OnRequestException == [exc |-> "none", result |-> <<>>, requests |-> 1,
                       log |-> "api_error"]

\* requests counts the calls of requests.get made by one call of get_schedule
get_schedule(p, from_code, to_code, response) ==
    IF Raises(response) THEN OnRequestException
    ELSE LET segs    == response.segments
             Keep(i) == /\ HasTimes(segs[i])
                        /\ KeepTitle(p, TitleOf(segs[i]), from_code, to_code)
             kept    == SelectSeq([i \in 1..Len(segs) |-> i], Keep)
         IN  [exc      |-> "none",
              result   |-> [k \in 1..Len(kept) |->
                              <<TitleOf(segs[kept[k]]),
                                segs[kept[k]].departure,
                                segs[kept[k]].arrival,
                                ExpressOf(segs[kept[k]])>>],
              requests |-> 1,
              log      |-> "none"]

(***************************************************************************)
(* Bounds and input sets                                                   *)
(***************************************************************************)
MaxLen     == 3     \* longest schedule handed to find_fastest
MaxSegs    == 3     \* most segments in one upstream response
NumUsers   == 2     \* bot users sending commands
MaxToggles == 3     \* toggle actions followed

Users == 1..NumUsers

SeqsUpTo(S, n) == UNION {[1..k -> S] : k \in 0..n}

\* timestamp strings given to format_duration
TimeStrings ==
    { Iso(1, 9, 0, 0, TRUE, 3),     \* 09:00:00+03:00
      Iso(1, 9, 47, 0, TRUE, 3),    \* 09:47:00+03:00
      Iso(1, 9, 47, 59, TRUE, 3),   \* 09:47:59+03:00
      Iso(1, 8, 59, 59, TRUE, 3),   \* 08:59:59+03:00
      Iso(1, 6, 47, 0, TRUE, 0),    \* 06:47:00+00:00, the instant 09:47+03:00
      Iso(1, 8, 0, 0, TRUE, 0),     \* 08:00:00+00:00, the instant 11:00+03:00
      Iso(1, 11, 0, 1, TRUE, 3),    \* 11:00:01+03:00
      Iso(2, 10, 0, 0, TRUE, 3),    \* next day 10:00:00+03:00
      Iso(1, 9, 5, 0, FALSE, 0),    \* 09:05:00, no offset
      Iso(1, 9, 30, 0, FALSE, 0),   \* 09:30:00, no offset
      Garbage }

TitlePM == Pushkino \o <<" ", "-", " ">> \o MoscowYar
TitleSP == <<"S", "o", "f", " ", "-", " ">> \o Pushkino
TitleAM == <<"A", "l", "e", "x", " ", "-", " ", "M", "o", "s", "k", "v", "a">>
TitleMB == <<"M", "y", "t", " ", "-", " ", "B", "o", "l">>

Seg(dep, arr) == <<TitlePM, dep, arr, "none">>

\* segments given to find_fastest; the reference times are 09:00+03:00 and
\* 09:30+03:00
SegA == Seg(Iso(1, 8, 59, 59, TRUE, 3), Iso(1, 9, 39, 59, TRUE, 3))   \* 40 min
SegB == Seg(Iso(1, 9, 0, 0, TRUE, 3),   Iso(1, 10, 30, 0, TRUE, 3))   \* 90 min
SegC == Seg(Iso(1, 9, 2, 0, TRUE, 3),   Iso(1, 10, 32, 0, TRUE, 3))   \* 90 min
SegD == Seg(Iso(1, 9, 5, 0, TRUE, 3),   Iso(1, 9, 45, 0, TRUE, 3))    \* 40 min
SegE == Seg(Iso(1, 9, 5, 0, TRUE, 3),   Iso(1, 9, 35, 0, TRUE, 3))    \* 30 min
SegF == Seg(Iso(1, 9, 30, 0, TRUE, 3),  Iso(1, 10, 30, 0, TRUE, 3))   \* 60 min
SegG == Seg(Iso(1, 9, 32, 0, TRUE, 3),  Iso(1, 9, 52, 0, TRUE, 3))    \* 20 min
SegH == Seg(Iso(1, 9, 32, 0, TRUE, 3),  Iso(1, 11, 2, 0, TRUE, 3))    \* 90 min
SegI == Seg(Iso(1, 6, 35, 0, TRUE, 0),  Iso(1, 7, 20, 0, TRUE, 0))    \* 45 min, +00:00
SegJ == Seg(Iso(1, 9, 29, 59, TRUE, 3), Iso(1, 10, 9, 59, TRUE, 3))   \* 40 min

FastSegs == {SegA, SegB, SegC, SegD, SegE, SegF, SegG, SegH, SegI, SegJ}

RefTimes == { Datetime(TRUE, (24 + 9) * 3600, 3 * 3600),
              Datetime(TRUE, (24 + 9) * 3600 + 1800, 3 * 3600) }

Raw(dep, arr, has_thread, title, express) ==
    [departure |-> dep, arrival |-> arr, has_thread |-> has_thread,
     has_title |-> has_thread, title |-> title, express_type |-> express]

\* segments of an upstream response
RawD == Raw(SegD[2], SegD[3], TRUE, TitlePM, "none")
RawF == Raw(SegF[2], SegF[3], TRUE, TitleSP, "express")
RawAM == Raw(SegC[2], SegC[3], TRUE, TitleAM, "express")
RawMB == Raw(SegC[2], SegC[3], TRUE, TitleMB, "none")
RawNoDep == Raw(Empty, SegD[3], TRUE, TitlePM, "none")
RawNoArr == Raw(SegD[2], Empty, TRUE, TitleSP, "none")
RawNoThread == Raw(SegG[2], SegG[3], FALSE, <<>>, "none")
RawBadDep == Raw(Garbage, SegD[3], TRUE, TitlePM, "none")

RawSegs == {RawD, RawF, RawAM, RawMB, RawNoDep, RawNoArr, RawNoThread}

FailureKinds == {"connection_error", "timeout", "http_error"}

Failed(kind) == [kind |-> kind, segments |-> <<>>]
Ok(segments) == [kind |-> "ok", segments |-> segments]

FetchResponses ==
    {Failed(k) : k \in FailureKinds} \cup {Ok(s) : s \in SeqsUpTo(RawSegs, MaxSegs)}

CodePairs == { <<STATION_Pushkino, STATION_MOSCOW>>,
               <<STATION_MOSCOW, STATION_Pushkino>>,
               <<"s_other", STATION_MOSCOW>> }

(***************************************************************************)
(* Function-level specifications: one call of the function under study     *)
(***************************************************************************)
NoOut == [who |-> 0, action |-> "none", exc |-> "none", reply |-> "none",
          lines |-> <<>>, flag |-> FALSE, schedule |-> <<>>, idx |-> 0]

FrontEndIdle ==
    /\ handler = [u \in Users |-> "idle"]
    /\ use_buffer = FALSE
    /\ toggles = 0
    /\ schedule_to = <<>>
    /\ schedule_back = <<>>
    /\ now = NoDt
    /\ out = NoOut

FrontEndVars == <<handler, use_buffer, toggles, schedule_to, schedule_back,
                  now, out>>

\* ---- format_duration ----
InitDur ==
    /\ prog \in Programs
    /\ pc = "call"
    /\ args \in [start : TimeStrings, end : TimeStrings]
    /\ ret = [exc |-> "none", text |-> <<>>, log |-> "none"]
    /\ FrontEndIdle

CallFormatDurationMain ==
    /\ prog = "console"
    /\ pc = "call"
    /\ pc' = "done"
    /\ ret' = format_duration_main(args.start, args.end)
    /\ UNCHANGED <<prog, args, FrontEndVars>>

CallFormatDurationBot ==
    /\ prog = "bot"
    /\ pc = "call"
    /\ pc' = "done"
    /\ ret' = format_duration_bot(args.start, args.end)
    /\ UNCHANGED <<prog, args, FrontEndVars>>

NextDur == CallFormatDurationMain \/ CallFormatDurationBot

SpecDur == InitDur /\ [][NextDur]_vars

\* ---- find_fastest ----
InitFast ==
    /\ prog \in Programs
    /\ pc = "call"
    /\ args \in [schedule : SeqsUpTo(FastSegs, MaxLen),
                 start_time : RefTimes,
                 use_buffer : BOOLEAN]
    /\ ret = [exc |-> "none", idx |-> 0]
    /\ FrontEndIdle

CallFindFastestMain ==
    /\ prog = "console"
    /\ pc = "call"
    /\ pc' = "done"
    /\ ret' = find_fastest("console", args.schedule, args.start_time,
                        args.use_buffer)
    /\ UNCHANGED <<prog, args, FrontEndVars>>

CallFindFastestBot ==
    /\ prog = "bot"
    /\ pc = "call"
    /\ pc' = "done"
    /\ ret' = find_fastest("bot", args.schedule, args.start_time,
                        args.use_buffer)
    /\ UNCHANGED <<prog, args, FrontEndVars>>

NextFast == CallFindFastestMain \/ CallFindFastestBot

SpecFast == InitFast /\ [][NextFast]_vars

\* ---- get_schedule ----
InitFetch ==
    /\ prog \in Programs
    /\ pc = "call"
    /\ args \in [codes : CodePairs, response : FetchResponses]
    /\ ret = [exc |-> "none", result |-> <<>>, requests |-> 0, log |-> "none"]
    /\ FrontEndIdle

CallGetScheduleMain ==
    /\ prog = "console"
    /\ pc = "call"
    /\ pc' = "done"
    /\ ret' = get_schedule("console", args.codes[1], args.codes[2],
                        args.response)
    /\ UNCHANGED <<prog, args, FrontEndVars>>

CallGetScheduleBot ==
    /\ prog = "bot"
    /\ pc = "call"
    /\ pc' = "done"
    /\ ret' = get_schedule("bot", args.codes[1], args.codes[2],
                        args.response)
    /\ UNCHANGED <<prog, args, FrontEndVars>>

NextFetch == CallGetScheduleMain \/ CallGetScheduleBot

SpecFetch == InitFetch /\ [][NextFetch]_vars

(***************************************************************************)
(* Properties of format_duration (under SpecDur)                           *)
(***************************************************************************)
\* both arguments parse and Python can order them
ParsedPair ==
    /\ isoparse(args.start).exc = "none"
    /\ isoparse(args.end).exc = "none"
    /\ Comparable(isoparse(args.end).dt, isoparse(args.start).dt)

\* arrival minus departure, in seconds
Elapsed == total_seconds(isoparse(args.end).dt, isoparse(args.start).dt)

Markers == {InvalidDuration, InvalidFormat, Unknown}

IsDigit(c) == \E d \in 0..9 : DigitChars[d + 1] = c

DigitValue(c) == CHOOSE d \in 0..9 : DigitChars[d + 1] = c

RECURSIVE Number(_)
\* the number a sequence of decimal digits denotes
Number(cs) ==
    IF Len(cs) = 0 THEN 0
    ELSE Number(SubSeq(cs, 1, Len(cs) - 1)) * 10 + DigitValue(cs[Len(cs)])

\* digits, a colon, two digits; at least two digits before the colon
IsHHMM(text) ==
    /\ Len(text) >= 5
    /\ text[Len(text) - 2] = ":"
    /\ \A i \in 1..Len(text) : i # Len(text) - 2 => IsDigit(text[i])

HHOf(text) == Number(SubSeq(text, 1, Len(text) - 3))
MMOf(text) == Number(SubSeq(text, Len(text) - 1, Len(text)))

\* C3: for parseable timestamps with arrival strictly before departure,
\* format_duration (console and bot) returns a marker, never a time.
C3_NegativeDurationIsMarked ==
    (pc = "done" /\ ParsedPair /\ Elapsed < 0)
        => (ret.exc = "none" /\ ret.text \in Markers)

\* C7: for parseable timestamps with arrival at or after departure,
\* format_duration returns zero-padded HH:MM with HH*60 + MM the elapsed
\* whole minutes (seconds dropped) and 0 <= MM <= 59, also outside the
\* 10..120 minute diagnostic window.
C7_DurationIsFlooredMinutes ==
    (pc = "done" /\ ParsedPair /\ Elapsed >= 0)
        => /\ ret.exc = "none"
           /\ IsHHMM(ret.text)
           /\ MMOf(ret.text) \in 0..59
           /\ HHOf(ret.text) * 60 + MMOf(ret.text) = Elapsed \div 60

\* the console formatted a duration above 120 minutes that has odd seconds,
\* and logged the diagnostic
C7_Witness ==
    /\ pc = "done" /\ ParsedPair
    /\ Elapsed > 120 * 60 /\ Elapsed % 60 # 0
    /\ prog = "console" /\ ret.log = "warning"
    /\ IsHHMM(ret.text) /\ HHOf(ret.text) >= 2

(***************************************************************************)
(* Properties of find_fastest (under SpecFast)                             *)
(***************************************************************************)
\* the cutoff: the reference time, 30 minutes later with the buffer on
Cutoff ==
    IF args.use_buffer
    THEN Instant(args.start_time) + 30 * 60
    ELSE Instant(args.start_time)

DepartureAt(i) == Instant(isoparse(args.schedule[i][2]).dt)
DurationAt(i)  == Instant(isoparse(args.schedule[i][3]).dt) - DepartureAt(i)
WaitAt(i)      == DepartureAt(i) - Cutoff

\* positions of the segments departing at or after the cutoff
Pool == {i \in 1..Len(args.schedule) : DepartureAt(i) >= Cutoff}

PlausibleAt(i) == DurationAt(i) >= 30 * 60 /\ DurationAt(i) <= 60 * 60

\* C1: if some segment at or after the cutoff has a 30..60 minute duration,
\* find_fastest (console and bot) returns a segment with such a duration.
C1_PlausibleDominatesWait ==
    (pc = "done" /\ \E i \in Pool : PlausibleAt(i))
        => (ret.exc = "none" /\ ret.idx \in Pool /\ PlausibleAt(ret.idx))

\* C2: find_fastest returns none exactly when nothing departs at or after the
\* cutoff, otherwise a segment of the schedule departing at or after it; and
\* the buffer flag only moves the reference time by 30 minutes.
C2_CutoffEligibility ==
    pc = "done"
        => /\ ret.exc = "none"
           /\ ret.idx = 0 <=> Pool = {}
           /\ ret.idx # 0 => ret.idx \in Pool
           /\ find_fastest(prog, args.schedule, args.start_time, TRUE)
                = find_fastest(prog, args.schedule,
                               AddMinutes(args.start_time, 30), FALSE)

\* with the buffer on, a segment departing exactly at the cutoff was returned
\* from a schedule that also holds a segment departing before the cutoff
C2_Witness ==
    /\ pc = "done" /\ args.use_buffer
    /\ ret.idx # 0 /\ WaitAt(ret.idx) = 0
    /\ \E i \in 1..Len(args.schedule) : DepartureAt(i) < Cutoff

EquallyPenalized ==
    /\ Pool # {}
    /\ \/ \A i \in Pool : PlausibleAt(i)
       \/ \A i \in Pool : ~PlausibleAt(i)

SmallestWait(i) == \A j \in Pool : WaitAt(i) <= WaitAt(j)

SmallestDurationAmongSameWait(i) ==
    \A j \in Pool : WaitAt(j) = WaitAt(i) => DurationAt(i) <= DurationAt(j)

EarliestAmongIdentical(i) ==
    \A j \in Pool :
        (WaitAt(j) = WaitAt(i) /\ DurationAt(j) = DurationAt(i)) => i <= j

EarliestAmongSameWait(i) ==
    \A j \in Pool : WaitAt(j) = WaitAt(i) => i <= j

\* C9 as stated: in a pool that is all plausible or all implausible the
\* result has the smallest wait, then the smallest duration, then the
\* earliest position.
C9_WaitThenDuration ==
    (pc = "done" /\ EquallyPenalized)
        => /\ ret.idx \in Pool
           /\ SmallestWait(ret.idx)
           /\ SmallestDurationAmongSameWait(ret.idx)
           /\ EarliestAmongIdentical(ret.idx)

\* C9 as amended: the console compares durations only in an all-plausible
\* pool; in an all-implausible pool it returns the earliest of the segments
\* with the smallest wait.  The bot always compares wait, then duration.
C9_WaitThenDurationOrPosition ==
    (pc = "done" /\ EquallyPenalized)
        => /\ ret.idx \in Pool
           /\ SmallestWait(ret.idx)
           /\ IF prog = "bot" \/ \A i \in Pool : PlausibleAt(i)
              THEN /\ SmallestDurationAmongSameWait(ret.idx)
                   /\ EarliestAmongIdentical(ret.idx)
              ELSE EarliestAmongSameWait(ret.idx)

\* the console returned, from an all-implausible pool, a segment although a
\* later one has the same wait and a shorter duration
C9_Witness ==
    /\ pc = "done" /\ prog = "console" /\ EquallyPenalized
    /\ \A i \in Pool : ~PlausibleAt(i)
    /\ ret.idx \in Pool
    /\ \E j \in Pool : /\ j > ret.idx
                       /\ WaitAt(j) = WaitAt(ret.idx)
                       /\ DurationAt(j) < DurationAt(ret.idx)

(***************************************************************************)
(* Properties of get_schedule (under SpecFetch)                            *)
(***************************************************************************)
TitleMatches(title) == Contains(title, Pushkino) \/ Contains(title, MoscowYar)

RECURSIVE ExpectedSchedule(_)
\* the upstream segments with both timestamps and a matching title, in order
ExpectedSchedule(segs) ==
    IF segs = <<>> THEN <<>>
    ELSE LET s == Head(segs)
         IN  (IF /\ s.departure # Empty
                 /\ s.arrival # Empty
                 /\ TitleMatches(TitleOf(s))
              THEN << <<TitleOf(s), s.departure, s.arrival, ExpressOf(s)>> >>
              ELSE <<>>)
             \o ExpectedSchedule(Tail(segs))

\* C4: on a successful response get_schedule returns exactly the segments
\* with both timestamps whose title names Pushkino or the Moscow terminal,
\* in upstream order, whatever station codes were queried.
C4_OnlyMatchingTitles ==
    (pc = "done" /\ args.response.kind = "ok")
        => /\ ret.exc = "none"
           /\ ret.result = ExpectedSchedule(args.response.segments)

FrontResponses ==
    { Failed("timeout"),
      Ok(<<>>),
      Ok(<<RawD, RawF>>),
      Ok(<<RawMB, RawF>>),
      Ok(<<RawBadDep, RawD>>) }

\* datetime.now().astimezone() of main(): carries the local offset
ClockAware == { Datetime(TRUE, (24 + 9) * 3600, 3 * 3600),
                Datetime(TRUE, (24 + 9) * 3600 + 2400, 3 * 3600) }

\* datetime.now() of the bot handlers: no offset
ClockNaive == { Datetime(FALSE, (24 + 9) * 3600, 0),
                Datetime(FALSE, (24 + 9) * 3600 + 2400, 0) }

\* a slip: the action switches the buffer on instead of flipping it
ToggleValueOn(b) == TRUE

\* use_buffer = not use_buffer
ToggleValue(b) == ~b

Outcome(who, action, exc, reply, lines, flag, schedule, idx) ==
    [who |-> who, action |-> action, exc |-> exc, reply |-> reply,
     lines |-> lines, flag |-> flag, schedule |-> schedule, idx |-> idx]

\* print_schedule(title, schedule) and showing what it gave
ListingOutcome(p, who, action, schedule) ==
    LET r == print_schedule(p, schedule)
    IN  Outcome(who, action, r.exc,
                IF r.exc # "none" THEN "none"
                ELSE IF r.nodata THEN "no_data" ELSE "listing",
                r.lines, FALSE, schedule, 0)

\* fastest = find_fastest(schedule, now, use_buffer); if fastest:
\* print_schedule(title, [fastest]) else the "no suitable train" message
FastestOutcome(p, who, action, schedule, start_time, buffer) ==
    LET f == find_fastest(p, schedule, start_time, buffer)
        r == print_schedule(p, <<schedule[f.idx]>>)
    IN  IF f.exc # "none"
        THEN Outcome(who, action, f.exc, "none", <<>>, buffer, schedule, 0)
        ELSE IF f.idx = 0
        THEN Outcome(who, action, "none", "no_train", <<>>, buffer, schedule, 0)
        ELSE Outcome(who, action, r.exc,
                     IF r.exc = "none" THEN "segment" ELSE "none",
                     r.lines, buffer, schedule, f.idx)

Init ==
    /\ prog \in Programs
    /\ pc = IF prog = "console" THEN "start" ELSE "polling"
    /\ args = <<>>
    /\ ret = <<>>
    /\ FrontEndIdle

\* ---- console: main() ----
\* lines 95..101: the clock is read and both schedules are fetched once
MainStart ==
    /\ prog = "console" /\ pc = "start"
    /\ \E r1 \in FrontResponses, r2 \in FrontResponses, n \in ClockAware :
          /\ schedule_to' =
               get_schedule("console", STATION_Pushkino, STATION_MOSCOW, r1).result
          /\ schedule_back' =
               get_schedule("console", STATION_MOSCOW, STATION_Pushkino, r2).result
          /\ now' = n
    /\ pc' = "menu"
    /\ out' = Outcome(0, "fetch", "none", "none", <<>>, FALSE, <<>>, 0)
    /\ UNCHANGED <<prog, handler, use_buffer, toggles, args, ret>>

\* One pass of the menu loop; an exception raised by the chosen branch leaves
\* main(), which ends the process.
\* choice == "1"
Choice1 ==
    /\ prog = "console" /\ pc = "menu"
    /\ out' = ListingOutcome("console", 0, "1", schedule_to)
    /\ pc' = IF out'.exc = "none" THEN "menu" ELSE "crashed"
    /\ UNCHANGED <<prog, handler, use_buffer, toggles, schedule_to,
                   schedule_back, now, args, ret>>

\* choice == "2"
Choice2 ==
    /\ prog = "console" /\ pc = "menu"
    /\ out' = ListingOutcome("console", 0, "2", schedule_back)
    /\ pc' = IF out'.exc = "none" THEN "menu" ELSE "crashed"
    /\ UNCHANGED <<prog, handler, use_buffer, toggles, schedule_to,
                   schedule_back, now, args, ret>>

\* choice == "3"
Choice3 ==
    /\ prog = "console" /\ pc = "menu"
    /\ out' = FastestOutcome("console", 0, "3", schedule_to, now, use_buffer)
    /\ pc' = IF out'.exc = "none" THEN "menu" ELSE "crashed"
    /\ UNCHANGED <<prog, handler, use_buffer, toggles, schedule_to,
                   schedule_back, now, args, ret>>

\* choice == "4"
Choice4 ==
    /\ prog = "console" /\ pc = "menu"
    /\ out' = FastestOutcome("console", 0, "4", schedule_back, now, use_buffer)
    /\ pc' = IF out'.exc = "none" THEN "menu" ELSE "crashed"
    /\ UNCHANGED <<prog, handler, use_buffer, toggles, schedule_to,
                   schedule_back, now, args, ret>>

\* choice == "5"
Choice5 ==
    /\ prog = "console" /\ pc = "menu"
    /\ toggles < MaxToggles
    /\ use_buffer' = ToggleValue(use_buffer)
    /\ toggles' = toggles + 1
    /\ out' = Outcome(0, "5", "none", "toggled", <<>>, use_buffer', <<>>, 0)
    /\ UNCHANGED <<prog, pc, handler, schedule_to, schedule_back, now, args, ret>>

\* choice == "0"
Choice0 ==
    /\ prog = "console" /\ pc = "menu"
    /\ pc' = "exited"
    /\ out' = Outcome(0, "0", "none", "bye", <<>>, FALSE, <<>>, 0)
    /\ UNCHANGED <<prog, handler, use_buffer, toggles, schedule_to,
                   schedule_back, now, args, ret>>

\* any other input
InvalidChoice ==
    /\ prog = "console" /\ pc = "menu"
    /\ out' = Outcome(0, "other", "none", "invalid", <<>>, FALSE, <<>>, 0)
    /\ pc' = IF out'.exc = "none" THEN "menu" ELSE "crashed"
    /\ UNCHANGED <<prog, handler, use_buffer, toggles, schedule_to,
                   schedule_back, now, args, ret>>

\* ---- bot: the message handlers ----
\* A handler runs without interruption up to its only await, the reply; a
\* handler that raised never gets there.
\* /start
start(u) ==
    /\ prog = "bot" /\ pc = "polling"
    /\ handler[u] = "idle"
    /\ out' = Outcome(u, "start", "none", "help", <<>>, FALSE, <<>>, 0)
    /\ handler' = [handler EXCEPT
                     ![u] = IF out'.exc = "none" THEN "reply" ELSE "idle"]
    /\ UNCHANGED <<prog, pc, use_buffer, toggles, schedule_to, schedule_back,
                   now, args, ret>>

\* /to_moscow
to_moscow(u) ==
    /\ prog = "bot" /\ pc = "polling"
    /\ handler[u] = "idle"
    /\ \E r \in FrontResponses :
          out' = ListingOutcome("bot", u, "to_moscow",
                   get_schedule("bot", STATION_Pushkino, STATION_MOSCOW, r).result)
    /\ handler' = [handler EXCEPT
                     ![u] = IF out'.exc = "none" THEN "reply" ELSE "idle"]
    /\ UNCHANGED <<prog, pc, use_buffer, toggles, schedule_to, schedule_back,
                   now, args, ret>>

\* /to_pushkino
to_pushkino(u) ==
    /\ prog = "bot" /\ pc = "polling"
    /\ handler[u] = "idle"
    /\ \E r \in FrontResponses :
          out' = ListingOutcome("bot", u, "to_pushkino",
                   get_schedule("bot", STATION_MOSCOW, STATION_Pushkino, r).result)
    /\ handler' = [handler EXCEPT
                     ![u] = IF out'.exc = "none" THEN "reply" ELSE "idle"]
    /\ UNCHANGED <<prog, pc, use_buffer, toggles, schedule_to, schedule_back,
                   now, args, ret>>

\* /fast_to_moscow
fast_to_moscow(u) ==
    /\ prog = "bot" /\ pc = "polling"
    /\ handler[u] = "idle"
    /\ \E r \in FrontResponses, n \in ClockNaive :
          out' = FastestOutcome("bot", u, "fast_to_moscow",
                   get_schedule("bot", STATION_Pushkino, STATION_MOSCOW, r).result,
                   n, use_buffer)
    /\ handler' = [handler EXCEPT
                     ![u] = IF out'.exc = "none" THEN "reply" ELSE "idle"]
    /\ UNCHANGED <<prog, pc, use_buffer, toggles, schedule_to, schedule_back,
                   now, args, ret>>

\* /fast_to_pushkino
fast_to_pushkino(u) ==
    /\ prog = "bot" /\ pc = "polling"
    /\ handler[u] = "idle"
    /\ \E r \in FrontResponses, n \in ClockNaive :
          out' = FastestOutcome("bot", u, "fast_to_pushkino",
                   get_schedule("bot", STATION_MOSCOW, STATION_Pushkino, r).result,
                   n, use_buffer)
    /\ handler' = [handler EXCEPT
                     ![u] = IF out'.exc = "none" THEN "reply" ELSE "idle"]
    /\ UNCHANGED <<prog, pc, use_buffer, toggles, schedule_to, schedule_back,
                   now, args, ret>>

\* /toggle_buffer
toggle_buffer(u) ==
    /\ prog = "bot" /\ pc = "polling"
    /\ handler[u] = "idle"
    /\ toggles < MaxToggles
    /\ use_buffer' = ToggleValue(use_buffer)
    /\ toggles' = toggles + 1
    /\ out' = Outcome(u, "toggle_buffer", "none", "toggled", <<>>, use_buffer',
                      <<>>, 0)
    /\ handler' = [handler EXCEPT ![u] = "reply"]
    /\ UNCHANGED <<prog, pc, schedule_to, schedule_back, now, args, ret>>

\* await message.reply(...) completes
Replied(u) ==
    /\ prog = "bot" /\ pc = "polling"
    /\ handler[u] = "reply"
    /\ handler' = [handler EXCEPT ![u] = "idle"]
    /\ UNCHANGED <<prog, pc, use_buffer, toggles, schedule_to, schedule_back,
                   now, out, args, ret>>

Next ==
    \/ MainStart
    \/ Choice1
    \/ Choice2
    \/ Choice3
    \/ Choice4
    \/ Choice5
    \/ Choice0
    \/ InvalidChoice
    \/ \E u \in Users : start(u)
    \/ \E u \in Users : to_moscow(u)
    \/ \E u \in Users : to_pushkino(u)
    \/ \E u \in Users : fast_to_moscow(u)
    \/ \E u \in Users : fast_to_pushkino(u)
    \/ \E u \in Users : toggle_buffer(u)
    \/ \E u \in Users : Replied(u)

Spec == Init /\ [][Next]_vars

(***************************************************************************)
(* Properties of the front ends (under Spec)                               *)
(***************************************************************************)
ListActions   == {"1", "2", "to_moscow", "to_pushkino"}
FastActions   == {"3", "4", "fast_to_moscow", "fast_to_pushkino"}
ToggleActions == {"5", "toggle_buffer"}

Unparseable(seg) ==
    isoparse(seg[2]).exc # "none" \/ isoparse(seg[3]).exc # "none"

\* every timestamp is ISO-8601 and carries an offset
WellFormed(schedule) ==
    \A i \in 1..Len(schedule) :
        /\ schedule[i][2].fmt = "iso" /\ schedule[i][2].tz
        /\ schedule[i][3].fmt = "iso" /\ schedule[i][3].tz

\* C5: a listing of a schedule holding an unparseable timestamp does not
\* raise; every segment is rendered, the faulty ones with the sentinel.
C5_MalformedTimestampDoesNotAbortListing ==
    (out.action \in ListActions
       /\ \E i \in 1..Len(out.schedule) : Unparseable(out.schedule[i]))
        => /\ out.exc = "none"
           /\ Len(out.lines) = Len(out.schedule)
           /\ \A i \in 1..Len(out.schedule) :
                 Unparseable(out.schedule[i])
                     => out.lines[i].duration \in {InvalidFormat, Unknown}

\* C8: a fastest-trip action on a schedule of well-formed offset-carrying
\* timestamps ends with one rendered segment or the "no suitable train"
\* message, never with a fault.
C8_FastestTripNeverFaults ==
    (out.action \in FastActions /\ WellFormed(out.schedule))
        => (out.exc = "none" /\ out.reply \in {"segment", "no_train"})

\* the flag is on exactly after an odd number of toggles
FlagIsParityOfToggles == use_buffer = (toggles % 2 = 1)

\* the last fastest-trip query was given the flag as the toggles left it
QueryUsesCurrentFlag == out.action \in FastActions => out.flag = use_buffer

\* a toggle action flips the flag, any other action leaves it alone
OnlyToggleFlips ==
    /\ (out'.action \in ToggleActions /\ out' # out) => toggles' = toggles + 1
    /\ toggles' # toggles => use_buffer' = ~use_buffer
    /\ toggles' = toggles => use_buffer' = use_buffer

\* C10: the flag starts off, each toggle action flips it and no other action
\* changes it, under every interleaving of the handlers; a fastest-trip query
\* uses the value the latest toggle left.
C10_FlagFollowsToggles ==
    /\ [](FlagIsParityOfToggles /\ QueryUsesCurrentFlag)
    /\ [][OnlyToggleFlips]_vars

\* user 2 queried with the flag on after three toggles, while the handler of
\* user 1 was still awaiting its reply
C10_Witness ==
    /\ prog = "bot" /\ toggles = 3 /\ use_buffer
    /\ out.action = "fast_to_moscow" /\ out.who = 2 /\ out.flag
    /\ handler[1] = "reply"

====
